---- MODULE Spec2Model ----
(***************************************************************************)
(* The interaction controller of src/frontend/app.js: the hand-gesture     *)
(* classifier (detectGesture), the emission gate (updateGestureUI), the    *)
(* connection lifecycle (connectToLiveKit and the connect button) and the  *)
(* chat / microphone handlers, as one state machine.                       *)
(*                                                                         *)
(* JavaScript runs the handlers on one event loop: a handler runs to its   *)
(* next `await` without interleaving, so every action below is one such    *)
(* run-to-await segment.  The LiveKit room, the token endpoint, the camera *)
(* and the clock are the environment: their answers are chosen with \E.    *)
(***************************************************************************)
EXTENDS Integers, Sequences, FiniteSets, TLC

\* ---------------------------------------------------------------- bounds
\* connectToLiveKit invocations (and so Room objects) in one behaviour of Spec
MaxAttempts == 2
\* the same for SpecSession, which adds the camera frames and the clock
MaxSessionAttempts == 1
\* landmark coordinates range over 0..MaxCoord
MaxCoord == 1
\* the clock of SpecSession runs over ClockBase .. ClockBase + MaxElapsed (ms)
MaxElapsed == 2100
\* the clock of SpecGate runs over ClockBase .. ClockBase + MaxGateElapsed (ms)
MaxGateElapsed == 2030
\* frames of the held-pose scenario after its first frame (SpecHold)
MaxHoldFrames == 30

\* ------------------------------------------------------- program constants
\* app.js:179  now - lastGestureTime > 2000
GateWindowMs == 2000
\* app.js:20   let lastGestureTime = 0
InitGestureTime == 0

\* Date.now() is milliseconds since 1970: every reading the program can see
\* is far above GateWindowMs.  ClockBase stands for such a reading.
ClockBase == 5000

NoRoom == 0

\* ------------------------------------------------------------- landmarks
\* The landmark indices detectGesture reads (app.js:150-164).
Indices == {3, 4, 6, 8, 10, 12, 14, 16, 18, 20}
Coord == 0..MaxCoord

\* A frame with the given y per index and x = 0 everywhere.
FrameOfY(ys) == [i \in Indices |-> [x |-> 0, y |-> ys[i]]]

TipIdx == {4, 8, 12, 16, 20}
\* y grows downward: a tip above its joint has the smaller y.
OpenFrame   == FrameOfY([i \in Indices |-> IF i \in TipIdx THEN 0 ELSE 1])
FistFrame   == FrameOfY([i \in Indices |-> IF i \in TipIdx THEN 1 ELSE 0])
ThumbFrame  == FrameOfY([i \in Indices |-> IF i \in {4, 6, 10, 14, 18} THEN 0 ELSE 1])
MixedFrame  == FrameOfY([i \in Indices |-> IF i \in {4, 8, 10, 14, 18} THEN 0 ELSE 1])
SampleFrames == {OpenFrame, FistFrame, ThumbFrame, MixedFrame}

\* results.multiHandLandmarks: maxNumHands is 1 (app.js:200), so no hand or one
HandLists == {<<>>} \cup {<<f>> : f \in SampleFrames}

\* detectGesture (app.js:146-171)
detectGestureNoThumbJoint(landmarks) ==
    LET indexIsOpen  == landmarks[8].y  < landmarks[6].y
        middleIsOpen == landmarks[12].y < landmarks[10].y
        ringIsOpen   == landmarks[16].y < landmarks[14].y
        pinkyIsOpen  == landmarks[20].y < landmarks[18].y
    IN  IF indexIsOpen /\ middleIsOpen /\ ringIsOpen /\ pinkyIsOpen
        THEN "Open_Palm"
        ELSE IF ~indexIsOpen /\ ~middleIsOpen /\ ~ringIsOpen /\ ~pinkyIsOpen
             THEN IF landmarks[4].y < landmarks[8].y
                  THEN "Thumb_Up"
                  ELSE "Closed_Fist"
             ELSE "NONE"

detectGesture(landmarks) ==
    LET thumbIsOpen  == landmarks[4].x  < landmarks[3].x
        indexIsOpen  == landmarks[8].y  < landmarks[6].y
        middleIsOpen == landmarks[12].y < landmarks[10].y
        ringIsOpen   == landmarks[16].y < landmarks[14].y
        pinkyIsOpen  == landmarks[20].y < landmarks[18].y
    IN  IF indexIsOpen /\ middleIsOpen /\ ringIsOpen /\ pinkyIsOpen
        THEN "Open_Palm"
        ELSE IF ~indexIsOpen /\ ~middleIsOpen /\ ~ringIsOpen /\ ~pinkyIsOpen
             THEN IF landmarks[4].y < landmarks[3].y /\ landmarks[4].y < landmarks[8].y
                  THEN "Thumb_Up"
                  ELSE "Closed_Fist"
             ELSE "NONE"

\* ------------------------------------------------------------------ text
\* chatInput.value as a sequence of characters
Texts == { <<>>, <<" ", " ", " ">>, <<"h", "i">>, <<" ", "h", "i", "\t">> }

IsSpace(c) == c \in {" ", "\t", "\n"}

RECURSIVE TrimStart(_)
TrimStart(s) ==
    IF s = <<>> THEN <<>>
    ELSE IF IsSpace(Head(s)) THEN TrimStart(Tail(s)) ELSE s

RECURSIVE TrimEnd(_)
TrimEnd(s) ==
    IF s = <<>> THEN <<>>
    ELSE IF IsSpace(s[Len(s)]) THEN TrimEnd(SubSeq(s, 1, Len(s) - 1)) ELSE s

TrimStartOnly(s) == TrimStart(s)

\* String.prototype.trim (app.js:107)
Trim(s) == TrimEnd(TrimStart(s))

\* ----------------------------------------------------------------- state
VARIABLES
    room,             \* app.js:16  NoRoom (null) or the Room object, named by its attempt
    isConnected,      \* app.js:17
    isMicOn,          \* app.js:18
    lastGesture,      \* app.js:19
    lastGestureTime,  \* app.js:20
    cameraOn,         \* camera.start() has run (app.js:222): frames are delivered
    pc,               \* per connectToLiveKit invocation: the await it is suspended at
    rooms,            \* per Room object: the transport's connection state
    listeners,        \* per Room object: how often room.on(...) registered the handlers
    agentStatus,      \* agentStatusText.innerText and the .core animationDuration (app.js:72, 84-92)
    clock,            \* what Date.now() returns
    ev,               \* the handler that ran in the last step
    arg,              \* the input it read: chatInput.value, the inbound event (else <<>>)
    out,              \* the calls to the transport / token endpoint made in the last step
    logged,           \* the addLog entries written in the last step
    gate,             \* the last step's frame: the classified symbol, whether the gate let
                      \* it pass, and lastGesture as the frame found it
    frame,            \* SpecClassify: the hand last handed to detectGesture (<<>>: none yet)
    classified,       \* SpecClassify: what detectGesture returned for it
    holdFrame,        \* SpecHold: the hand held in front of the camera (<<>>: none)
    holdCount,        \* SpecHold: frames of the pose delivered after the first
    emitCount,        \* SpecHold: how many of them passed the gate
    mode              \* the scenario the user follows: "free" is any use of the page

appVars  == <<room, isConnected, isMicOn, cameraOn, pc, rooms, listeners, agentStatus>>
gestVars == <<lastGesture, lastGestureTime>>
obsVars  == <<ev, arg, out, logged, gate>>
clsVars  == <<frame, classified>>
holdVars == <<holdFrame, holdCount, emitCount>>
vars == <<appVars, gestVars, clock, obsVars, clsVars, holdVars, mode>>

\* The connectToLiveKit invocations of the behaviour, in the order they start.
Attempts == DOMAIN pc

NoFrame == [sym |-> "NoFrame", emitted |-> FALSE, prev |-> "NONE"]

Call(name, rm, topic, payload, enabled) ==
    [call |-> name, room |-> rm, topic |-> topic, payload |-> payload, enabled |-> enabled]
Log(type, msg) == [type |-> type, msg |-> msg]

\* The topics of the publishData calls among the calls o.
PublishedTopics(o) == {o[i].topic : i \in {j \in 1..Len(o) : o[j].call = "publishData"}}

\* What the last step did, for the properties to read: handler e read input a,
\* made the calls o and logged l.
ObsIn(e, a, o, l, g) == ev' = e /\ arg' = a /\ out' = o /\ logged' = l /\ gate' = g

Obs(e, o, l, g) == ObsIn(e, <<>>, o, l, g)

\* What the page shows before any handler has written the indicator.
InitialStatus == [text |-> "initial", duration |-> "initial"]

InitApp(n) ==
    /\ room = NoRoom
    /\ isConnected = FALSE
    /\ isMicOn = FALSE
    /\ lastGesture = "NONE"
    /\ lastGestureTime = InitGestureTime
    /\ cameraOn = FALSE
    /\ pc = [a \in 1..n |-> "idle"]
    /\ rooms = [a \in 1..n |-> "none"]
    /\ listeners = [a \in 1..n |-> 0]
    /\ agentStatus = InitialStatus
    /\ ev = "init"
    /\ arg = <<>>
    /\ out = <<>>
    \* app.js:251
    /\ logged = <<Log("system", "System initialized. Waiting for user authorization...")>>
    /\ gate = NoFrame

InitIdle ==
    /\ frame = <<>>
    /\ classified = "NoFrame"
    /\ holdFrame = <<>>
    /\ holdCount = 0
    /\ emitCount = 0
    /\ mode = "free"

Init ==
    /\ InitApp(MaxAttempts)
    /\ InitIdle
    /\ clock = ClockBase

\* ------------------------------------------------------------ lifecycle
Idle == {a \in Attempts : pc[a] = "idle"}
InFlight == {a \in Attempts : pc[a] \in {"fetch", "json", "connect", "mic"}}

\* The connect button's test (app.js:220) and connectToLiveKit's (app.js:39).
MayStartConnect(conn) == ~conn

\* The guard of the microphone button (app.js:237).
MicGuard(rm) == rm # NoRoom

\* The guard on the room in sendChatMessage (app.js:108).
ChatGuard(rm) == rm # NoRoom

\* The guard of the gesture dispatch (app.js:183).
GestureGuardRoomOnly(rm, conn) == rm # NoRoom
GestureGuard(rm, conn) == rm # NoRoom /\ conn

\* connectBtn click, connect branch (app.js:219-222) into connectToLiveKit up to
\* its first await, the token fetch (app.js:38-52).
ClickConnect ==
    /\ MayStartConnect(isConnected)
    /\ Idle # {}
    /\ LET a == CHOOSE i \in Idle : \A j \in Idle : i <= j
       IN  pc' = [pc EXCEPT ![a] = "fetch"]
    /\ Obs("connectClick",
           <<Call("fetch", NoRoom, "token", <<>>, FALSE)>>,
           <<Log("system", "Requesting access token...")>>,
           NoFrame)
    /\ UNCHANGED <<room, isConnected, isMicOn, cameraOn, rooms, listeners, agentStatus>>
    /\ UNCHANGED <<gestVars, clock, clsVars, holdVars, mode>>

ClickDisconnectKeepsFlag ==
    /\ ~MayStartConnect(isConnected)
    /\ rooms' = IF room # NoRoom /\ rooms[room] \in {"connecting", "connected"}
                THEN [rooms EXCEPT ![room] = "disconnected"]
                ELSE rooms
    /\ isConnected' = isConnected
    /\ Obs("connectClick",
           IF room # NoRoom THEN <<Call("disconnect", room, "", <<>>, FALSE)>> ELSE <<>>,
           <<Log("system", "Disconnected.")>>,
           NoFrame)
    /\ UNCHANGED <<room, isMicOn, cameraOn, pc, listeners, agentStatus>>
    /\ UNCHANGED <<gestVars, clock, clsVars, holdVars, mode>>

\* connectBtn click, disconnect branch (app.js:226-233).
ClickDisconnect ==
    /\ ~MayStartConnect(isConnected)
    /\ rooms' = IF room # NoRoom /\ rooms[room] \in {"connecting", "connected"}
                THEN [rooms EXCEPT ![room] = "disconnected"]
                ELSE rooms
    /\ isConnected' = FALSE
    /\ Obs("connectClick",
           IF room # NoRoom THEN <<Call("disconnect", room, "", <<>>, FALSE)>> ELSE <<>>,
           <<Log("system", "Disconnected.")>>,
           NoFrame)
    /\ UNCHANGED <<room, isMicOn, cameraOn, pc, listeners, agentStatus>>
    /\ UNCHANGED <<gestVars, clock, clsVars, holdVars, mode>>

\* The catch block of connectToLiveKit (app.js:99-103); the click handler then
\* resumes after `await connectToLiveKit()` and starts the camera (app.js:222).
Fail(a, e) ==
    /\ pc' = [pc EXCEPT ![a] = "failed"]
    /\ cameraOn' = TRUE
    /\ Obs(e, <<>>, <<Log("error", "Connection Failed")>>, NoFrame)

\* The fetch settles (app.js:45-55): a success status goes on to await
\* response.json(); a rejection or a non-success status throws.
FetchResolve(a, ok) ==
    /\ pc[a] = "fetch"
    /\ IF ok
       THEN /\ pc' = [pc EXCEPT ![a] = "json"]
            /\ Obs("fetchSettled", <<>>, <<>>, NoFrame)
            /\ UNCHANGED cameraOn
       ELSE Fail(a, "fetchSettled")
    /\ UNCHANGED <<room, isConnected, isMicOn, rooms, listeners, agentStatus>>
    /\ UNCHANGED <<gestVars, clock, clsVars, holdVars, mode>>

\* response.json() settles (app.js:55-66): the token is read, the Room is
\* created and assigned to the global, and room.connect is started.
JsonResolve(a, ok) ==
    /\ pc[a] = "json"
    /\ IF ok
       THEN /\ room' = a
            /\ rooms' = [rooms EXCEPT ![a] = "connecting"]
            /\ pc' = [pc EXCEPT ![a] = "connect"]
            /\ Obs("jsonSettled",
                   <<Call("newRoom", a, "", <<>>, FALSE), Call("connect", a, "", <<>>, FALSE)>>,
                   <<Log("system", "Token acquired. Connecting to LiveKit...")>>,
                   NoFrame)
            /\ UNCHANGED cameraOn
       ELSE /\ Fail(a, "jsonSettled")
            /\ UNCHANGED <<room, rooms>>
    /\ UNCHANGED <<isConnected, isMicOn, listeners, agentStatus>>
    /\ UNCHANGED <<gestVars, clock, clsVars, holdVars, mode>>

\* room.connect settles (app.js:66-95).  The promise is the one of the Room this
\* invocation created (a); everything after the await reads the global `room`.
\* A Room that was disconnected while connecting rejects its connect.
ConnectResolve(a, ok) ==
    /\ pc[a] = "connect"
    /\ ok => rooms[a] = "connecting"
    /\ IF ok
       THEN /\ rooms' = [rooms EXCEPT ![a] = "connected"]
            /\ isConnected' = TRUE
            /\ listeners' = [listeners EXCEPT ![room] = @ + 1]
            /\ agentStatus' = [agentStatus EXCEPT !.text = "ONLINE"]
            /\ pc' = [pc EXCEPT ![a] = "mic"]
            /\ Obs("connectSettled",
                   <<Call("on", room, "", <<>>, FALSE),
                     Call("setMicrophoneEnabled", room, "", <<>>, TRUE)>>,
                   <<Log("system", "L.I.S.A System Online. Voice Channel Active.")>>,
                   NoFrame)
            /\ UNCHANGED cameraOn
       ELSE /\ rooms' = [rooms EXCEPT ![a] = "disconnected"]
            /\ Fail(a, "connectSettled")
            /\ UNCHANGED <<isConnected, listeners, agentStatus>>
    /\ UNCHANGED <<room, isMicOn>>
    /\ UNCHANGED <<gestVars, clock, clsVars, holdVars, mode>>

\* setMicrophoneEnabled(true) settles (app.js:95-97); then the click handler
\* resumes and starts the camera (app.js:222).
MicResolve(a, ok) ==
    /\ pc[a] = "mic"
    /\ IF ok
       THEN /\ isMicOn' = TRUE
            /\ pc' = [pc EXCEPT ![a] = "done"]
            /\ cameraOn' = TRUE
            /\ Obs("micSettled", <<>>, <<>>, NoFrame)
       ELSE /\ Fail(a, "micSettled")
            /\ UNCHANGED isMicOn
    /\ UNCHANGED <<room, isConnected, rooms, listeners, agentStatus>>
    /\ UNCHANGED <<gestVars, clock, clsVars, holdVars, mode>>

\* micBtn click (app.js:236-243).  What follows the await only redraws the button.
MicClick ==
    /\ IF MicGuard(room)
       THEN /\ isMicOn' = ~isMicOn
            /\ Obs("micClick",
                   <<Call("setMicrophoneEnabled", room, "", <<>>, ~isMicOn)>>,
                   <<>>, NoFrame)
       ELSE /\ UNCHANGED isMicOn
            /\ Obs("micClick", <<>>, <<>>, NoFrame)
    /\ UNCHANGED <<room, isConnected, cameraOn, pc, rooms, listeners, agentStatus>>
    /\ UNCHANGED <<gestVars, clock, clsVars, holdVars, mode>>

\* sendChatMessage (app.js:106-120) with chatInput.value = input.  What follows
\* the await only clears the input box.
SendChat(input) ==
    /\ LET text == Trim(input)
       IN  IF text = <<>> \/ ~ChatGuard(room)
           THEN ObsIn("sendChat", input, <<>>, <<>>, NoFrame)
           ELSE ObsIn("sendChat", input,
                    <<Call("publishData", room, "chat_message", text, FALSE)>>,
                    <<Log("user", "You")>>,
                    NoFrame)
    /\ UNCHANGED <<appVars, gestVars, clock, clsVars, holdVars, mode>>

\* The transport loses the session of a connected Room.  app.js registers no
\* handler for it (app.js:75-92 registers DataReceived and ActiveSpeakersChanged
\* only), so no program state changes.
TransportDisconnect(r) ==
    /\ rooms[r] = "connected"
    /\ rooms' = [rooms EXCEPT ![r] = "disconnected"]
    /\ Obs("transportDisconnected", <<>>, <<>>, NoFrame)
    /\ UNCHANGED <<room, isConnected, isMicOn, cameraOn, pc, listeners, agentStatus>>
    /\ UNCHANGED <<gestVars, clock, clsVars, holdVars, mode>>

\* The promise of a publishData call settles (app.js:113-119, 184-188); it
\* does so as the next event after the call.  sendChatMessage awaits it
\* outside any try block and what follows the await only clears the input
\* box; updateGestureUI drops it.  Neither has a handler for a rejection.
SendSettle(topic, ok) ==
    /\ topic \in PublishedTopics(out)
    /\ ObsIn("sendSettled", [topic |-> topic, ok |-> ok], <<>>, <<>>, NoFrame)
    /\ UNCHANGED <<appVars, gestVars, clock, clsVars, holdVars, mode>>

\* The topics the agent and other participants publish on.
Topics == {"chat_message", "gesture", "status"}

\* RoomEvent.DataReceived on Room r (app.js:76-82): each registration of the
\* listener runs once.
DataReceivedAnyTopic(r, topic) ==
    /\ rooms[r] = "connected"
    /\ listeners[r] > 0
    /\ ObsIn("dataReceived", [room |-> r, topic |-> topic],
             <<>>,
             [i \in 1..listeners[r] |-> Log("agent", "L.I.S.A")],
             NoFrame)
    /\ UNCHANGED <<appVars, gestVars, clock, clsVars, holdVars, mode>>
DataReceived(r, topic) ==
    /\ rooms[r] = "connected"
    /\ listeners[r] > 0
    /\ ObsIn("dataReceived", [room |-> r, topic |-> topic],
             <<>>,
             IF topic = "chat_message"
             THEN [i \in 1..listeners[r] |-> Log("agent", "L.I.S.A")]
             ELSE <<>>,
             NoFrame)
    /\ UNCHANGED <<appVars, gestVars, clock, clsVars, holdVars, mode>>

\* RoomEvent.ActiveSpeakersChanged on Room r with n speakers (app.js:84-92).
MaxSpeakers == 1

ActiveSpeakersChanged(r, n) ==
    /\ rooms[r] = "connected"
    /\ listeners[r] > 0
    /\ agentStatus' = IF n > 0
                      THEN [text |-> "SPEAKING...", duration |-> "0.5s"]
                      ELSE [text |-> "ONLINE", duration |-> "2s"]
    /\ ObsIn("speakersChanged", [room |-> r, speakers |-> n], <<>>, <<>>, NoFrame)
    /\ UNCHANGED <<room, isConnected, isMicOn, cameraOn, pc, rooms, listeners>>
    /\ UNCHANGED <<gestVars, clock, clsVars, holdVars, mode>>

\* ------------------------------------------------------------- gestures
\* The test of the emission gate (app.js:179).
GatePassesEither(gesture, now, lastG, lastT) ==
    now - lastT > GateWindowMs \/ gesture # lastG
GatePassesSame(gesture, now, lastG, lastT) ==
    now - lastT > GateWindowMs /\ gesture = lastG
GatePassesLate(gesture, now, lastG, lastT) ==
    now - lastT > 2 * GateWindowMs /\ gesture # lastG
GatePassesChange(gesture, now, lastG, lastT) ==
    gesture # lastG
GatePasses(gesture, now, lastG, lastT) ==
    now - lastT > GateWindowMs /\ gesture # lastG

UpdateGestureUIOnlyWhenSent(gesture, now) ==
    IF GatePasses(gesture, now, lastGesture, lastGestureTime)
    THEN IF GestureGuard(room, isConnected)
         THEN /\ lastGesture' = gesture
              /\ lastGestureTime' = now
              /\ Obs("frame",
                     <<Call("publishData", room, "gesture", gesture, FALSE)>>,
                     <<Log("system", "Gesture Sent")>>,
                     [sym |-> gesture, emitted |-> TRUE, prev |-> lastGesture])
         ELSE /\ UNCHANGED gestVars
              /\ Obs("frame", <<>>, <<>>, [sym |-> gesture, emitted |-> TRUE, prev |-> lastGesture])
    ELSE /\ UNCHANGED gestVars
         /\ Obs("frame", <<>>, <<>>, [sym |-> gesture, emitted |-> FALSE, prev |-> lastGesture])

UpdateGestureUIChatTopic(gesture, now) ==
    IF GatePasses(gesture, now, lastGesture, lastGestureTime)
    THEN /\ lastGesture' = gesture
         /\ lastGestureTime' = now
         /\ IF GestureGuard(room, isConnected)
            THEN Obs("frame",
                     <<Call("publishData", room, "chat_message", gesture, FALSE)>>,
                     <<Log("system", "Gesture Sent")>>,
                     [sym |-> gesture, emitted |-> TRUE, prev |-> lastGesture])
            ELSE Obs("frame", <<>>, <<>>, [sym |-> gesture, emitted |-> TRUE, prev |-> lastGesture])
    ELSE /\ UNCHANGED gestVars
         /\ Obs("frame", <<>>, <<>>, [sym |-> gesture, emitted |-> FALSE, prev |-> lastGesture])

\* updateGestureUI(gesture) with Date.now() = now (app.js:173-192).  publishData
\* is not awaited: the handler goes on whatever the transport answers.
UpdateGestureUI(gesture, now) ==
    IF GatePasses(gesture, now, lastGesture, lastGestureTime)
    THEN /\ lastGesture' = gesture
         /\ lastGestureTime' = now
         /\ IF GestureGuard(room, isConnected)
            THEN Obs("frame",
                     <<Call("publishData", room, "gesture", gesture, FALSE)>>,
                     <<Log("system", "Gesture Sent")>>,
                     [sym |-> gesture, emitted |-> TRUE, prev |-> lastGesture])
            ELSE Obs("frame", <<>>, <<>>, [sym |-> gesture, emitted |-> TRUE, prev |-> lastGesture])
    ELSE /\ UNCHANGED gestVars
         /\ Obs("frame", <<>>, <<>>, [sym |-> gesture, emitted |-> FALSE, prev |-> lastGesture])

\* onResults(results) with results.multiHandLandmarks = hands and
\* Date.now() = now (app.js:124-144).
OnResultsAt(hands, now) ==
    IF hands = <<>>
    THEN /\ UNCHANGED gestVars
         /\ Obs("frame", <<>>, <<>>, NoFrame)
    ELSE LET gesture == detectGesture(hands[1])
         IN  IF gesture # "NONE"
             THEN UpdateGestureUI(gesture, now)
             ELSE /\ UNCHANGED gestVars
                  /\ Obs("frame", <<>>, <<>>, [sym |-> "NONE", emitted |-> FALSE, prev |-> lastGesture])

\* The landmark source delivers a frame; it does so once the camera runs.
OnResults(hands) ==
    /\ cameraOn
    /\ OnResultsAt(hands, clock)
    /\ UNCHANGED <<appVars, clock, clsVars, holdVars, mode>>

\* Time passes.
Advance(dt, limit) ==
    /\ clock + dt <= ClockBase + limit
    /\ clock' = clock + dt
    /\ Obs("tick", <<>>, <<>>, NoFrame)
    /\ UNCHANGED <<appVars, gestVars, clsVars, holdVars, mode>>

Tick == \E dt \in {700, 2100} : Advance(dt, MaxElapsed)

ConnectBtnClick == ClickConnect \/ ClickDisconnect

\* The session: the buttons, the chat box, the connect continuations and the
\* transport, with no hand in front of the camera.
NextLifecycle ==
    \/ ConnectBtnClick
    \/ \E a \in Attempts, ok \in BOOLEAN : FetchResolve(a, ok)
    \/ \E a \in Attempts, ok \in BOOLEAN : JsonResolve(a, ok)
    \/ \E a \in Attempts, ok \in BOOLEAN : ConnectResolve(a, ok)
    \/ \E a \in Attempts, ok \in BOOLEAN : MicResolve(a, ok)
    \/ MicClick
    \/ \E input \in Texts : SendChat(input)
    \/ \E r \in Attempts : TransportDisconnect(r)

Next == NextLifecycle

Spec == Init /\ [][Next]_vars

\* The session together with the camera frames and the clock.
InitSession ==
    /\ InitApp(MaxSessionAttempts)
    /\ InitIdle
    /\ clock = ClockBase

NextSession ==
    \/ NextLifecycle
    \/ \E hands \in HandLists : OnResults(hands)
    \/ Tick

SpecSession == InitSession /\ [][NextSession]_vars

\* ------------------------------------------------- the transport answers
\* A page whose sends settle and whose Room raises its events.
NextTransport ==
    \/ NextLifecycle
    \/ \E hands \in HandLists : OnResults(hands)
    \/ \E topic \in Topics, ok \in BOOLEAN : SendSettle(topic, ok)
    \/ \E r \in Attempts, topic \in Topics : DataReceived(r, topic)
    \/ \E r \in Attempts, n \in 0..MaxSpeakers : ActiveSpeakersChanged(r, n)

SpecTransport == InitSession /\ [][NextTransport]_vars

\* ------------------------------------------------- after a disconnect click
\* The user clicks disconnect and from then on makes no connect request:
\* mode "quiet" starts right after a disconnect click and excludes the
\* connect branch of the button.  Everything else goes on, the continuations
\* of earlier connect attempts included.
QuietStart ==
    /\ mode = "free"
    /\ ev = "connectClick"
    /\ logged = <<Log("system", "Disconnected.")>>
    /\ mode' = "quiet"
    /\ UNCHANGED <<appVars, gestVars, clock, obsVars, clsVars, holdVars>>

NextQuiet ==
    \/ mode = "free" /\ NextLifecycle
    \/ QuietStart
    \/ mode = "quiet" /\ NextLifecycle /\ (ev' = "connectClick" => isConnected)

SpecQuiet == Init /\ [][NextQuiet]_vars

\* ------------------------------------------------------------- recovery
\* The page is used in any way (mode "free") and at any moment the user
\* starts to recover (mode "recover"): from then on every collaborator
\* answers with success, and the user waits for the attempts in flight and
\* then, unless a session is up, clicks the connect button.  One connect
\* attempt is kept back for the recovery.
Connected == isConnected /\ room # NoRoom /\ rooms[room] = "connected"

InitRecover ==
    /\ InitApp(MaxSessionAttempts + 1)
    /\ InitIdle
    /\ clock = ClockBase

RecoverStart ==
    /\ mode = "free"
    /\ mode' = "recover"
    /\ UNCHANGED <<appVars, gestVars, clock, obsVars, clsVars, holdVars>>

\* A Room that was disconnected while connecting rejects its connect.
RecoverStep ==
    /\ mode = "recover"
    /\ \/ \E a \in Attempts : FetchResolve(a, TRUE)
       \/ \E a \in Attempts : JsonResolve(a, TRUE)
       \/ \E a \in Attempts : ConnectResolve(a, rooms[a] = "connecting")
       \/ \E a \in Attempts : MicResolve(a, TRUE)
       \/ InFlight = {} /\ ~Connected /\ ConnectBtnClick

FreeStep ==
    \/ NextLifecycle
    \/ \E topic \in Topics, ok \in BOOLEAN : SendSettle(topic, ok)

NextRecover ==
    \/ mode = "free" /\ FreeStep /\ Idle' # {}
    \/ RecoverStart
    \/ RecoverStep

SpecRecover == InitRecover /\ [][NextRecover]_vars /\ WF_vars(RecoverStep)

\* ------------------------------------------------------------ the gate alone
\* The program once a connect attempt has run to its end and the camera has
\* started (app.js:221-222): the attempt succeeded (the state MicResolve leaves)
\* or its token request failed (the state FetchResolve leaves).
AfterAttempt(succeeded) ==
    /\ cameraOn = TRUE
    /\ lastGesture = "NONE"
    /\ lastGestureTime = InitGestureTime
    /\ arg = <<>>
    /\ out = <<>>
    /\ gate = NoFrame
    /\ IF succeeded
       THEN /\ room = 1
            /\ isConnected = TRUE
            /\ isMicOn = TRUE
            /\ pc = <<"done">>
            /\ rooms = <<"connected">>
            /\ listeners = <<1>>
            /\ agentStatus = [InitialStatus EXCEPT !.text = "ONLINE"]
            /\ ev = "micSettled"
            /\ logged = <<>>
       ELSE /\ room = NoRoom
            /\ isConnected = FALSE
            /\ isMicOn = FALSE
            /\ pc = <<"failed">>
            /\ rooms = <<"none">>
            /\ listeners = <<0>>
            /\ agentStatus = InitialStatus
            /\ ev = "fetchSettled"
            /\ logged = <<Log("error", "Connection Failed")>>

InitGate ==
    /\ \E succeeded \in BOOLEAN : AfterAttempt(succeeded)
    /\ InitIdle
    /\ clock = ClockBase

TickGate == \E dt \in {10, 500, 2000} : Advance(dt, MaxGateElapsed)

NextGate ==
    \/ \E hands \in HandLists : OnResults(hands)
    \/ TickGate

SpecGate == InitGate /\ [][NextGate]_vars

\* ------------------------------------------------- a clock that is set
\* Date.now() follows the system clock, which can be set back as well as
\* forward between two frames.
MaxReadings == 5
Readings == {ClockBase + 1000 * k : k \in 0..MaxReadings}

ClockSet(t) ==
    /\ t # clock
    /\ clock' = t
    /\ Obs("tick", <<>>, <<>>, NoFrame)
    /\ UNCHANGED <<appVars, gestVars, clsVars, holdVars, mode>>

NextClock ==
    \/ \E hands \in HandLists : OnResults(hands)
    \/ \E t \in Readings : ClockSet(t)

SpecClock == InitGate /\ [][NextClock]_vars

\* ------------------------------------------------------------ a held pose
\* One hand held still: its first frame arrives at the initial clock reading,
\* every further one 100 ms after the one before.
IsGesture(hands) == hands # <<>> /\ detectGesture(hands[1]) # "NONE"

InitHold ==
    /\ \E succeeded \in BOOLEAN : AfterAttempt(succeeded)
    /\ frame = <<>>
    /\ classified = "NoFrame"
    /\ holdFrame \in {h \in HandLists : IsGesture(h)}
    /\ holdCount = 0
    /\ emitCount = 0
    /\ mode = "free"
    /\ clock = ClockBase

HoldStep ==
    /\ cameraOn
    /\ holdCount <= MaxHoldFrames
    /\ LET now == IF holdCount = 0 THEN clock ELSE clock + 100
       IN  /\ clock' = now
           /\ OnResultsAt(holdFrame, now)
    /\ holdCount' = holdCount + 1
    /\ emitCount' = IF gate'.emitted THEN emitCount + 1 ELSE emitCount
    /\ UNCHANGED <<appVars, clsVars, holdFrame, mode>>

SpecHold == InitHold /\ [][HoldStep]_vars

\* --------------------------------------------------- a change of pose
\* The hand shows one pose in a first frame and from then on holds another
\* (holdFrame); the frames keep coming, each one 100 or 700 ms after the one
\* before.
FrameGaps == {100, 700}

SwitchStep ==
    /\ cameraOn
    /\ holdCount <= MaxHoldFrames
    /\ IF holdCount = 0
       THEN /\ clock' = clock
            /\ \E h \in {g \in HandLists : IsGesture(g)} :
                  /\ detectGesture(h[1]) # detectGesture(holdFrame[1])
                  /\ OnResultsAt(h, clock)
       ELSE \E dt \in FrameGaps :
              /\ clock' = clock + dt
              /\ OnResultsAt(holdFrame, clock + dt)
    /\ holdCount' = holdCount + 1
    /\ emitCount' = IF gate'.emitted THEN emitCount + 1 ELSE emitCount
    /\ UNCHANGED <<appVars, clsVars, holdFrame, mode>>

SpecSwitch == InitHold /\ [][SwitchStep]_vars /\ WF_vars(SwitchStep)

\* --------------------------------------------------------- the classifier
\* The frames handed to the classifier: every y in Coord at every landmark
\* that detectGesture reads, and both outcomes of its x comparison
\* (landmarks[4].x < landmarks[3].x).
XAt(i) == IF i = 4 THEN Coord ELSE IF i = 3 THEN {MaxCoord} ELSE {0}
PointsAt(i) == {[x |-> px, y |-> py] : px \in XAt(i), py \in Coord}
MkFrame(ys, x4) ==
    [i \in Indices |-> [x |-> IF i = 4 THEN x4 ELSE CHOOSE px \in XAt(i) : TRUE,
                        y |-> ys[i]]]
AllFrames == {MkFrame(ys, x4) : ys \in [Indices -> Coord], x4 \in Coord}

InitClassify ==
    /\ AfterAttempt(TRUE)
    /\ InitIdle
    /\ clock = ClockBase

\* onResults hands the first hand to detectGesture (app.js:137).
FirstFrame(f) ==
    /\ cameraOn
    /\ frame = <<>>
    /\ frame' = <<f>>
    /\ classified' = detectGesture(f)
    /\ UNCHANGED <<appVars, gestVars, clock, obsVars, holdVars, mode>>

\* The next frame: landmark i has moved by one step, to p.
NextFrame(i, p) ==
    /\ cameraOn
    /\ frame # <<>>
    /\ \/ p.x = frame[1][i].x /\ p.y - frame[1][i].y \in {-1, 1}
       \/ p.y = frame[1][i].y /\ p.x - frame[1][i].x \in {-1, 1}
    /\ LET f == [frame[1] EXCEPT ![i] = p]
       IN  /\ frame' = <<f>>
           /\ classified' = detectGesture(f)
    /\ UNCHANGED <<appVars, gestVars, clock, obsVars, holdVars, mode>>

NextClassify ==
    \/ frame = <<>> /\ \E f \in AllFrames : FirstFrame(f)
    \/ \E i \in Indices : \E p \in PointsAt(i) : NextFrame(i, p)

SpecClassify == InitClassify /\ [][NextClassify]_vars

\* ---------------------------------------------------------------- claims
IsPublish(c, topic) == c.call = "publishData" /\ c.topic = topic
IsErrorEntry(e) == e.type = "error"
ErrorsLogged(l) == Len(SelectSeq(l, IsErrorEntry))

\* C1: a sendChat made while isConnected is false hands no chat message to
\* the transport.
C1_NoChatWhileDisconnected ==
    \A i \in 1..Len(out) : IsPublish(out[i], "chat_message") => isConnected

\* C2: a gesture message is handed to the transport only in a step in which
\* isConnected is true.
C2_GestureOnlyWhileConnected ==
    \A i \in 1..Len(out) : IsPublish(out[i], "gesture") => isConnected

\* C2, its case: after a disconnect a frame passes the gate and nothing is sent.
C2_Witness ==
    /\ gate.emitted
    /\ ~isConnected
    /\ room # NoRoom
    /\ rooms[room] = "disconnected"
    /\ out = <<>>

\* C3: a connect click while a connect is in flight (and none has completed)
\* changes nothing and starts no token request, Room or transport connect.
C3_SecondConnectIgnored ==
    [][(InFlight # {} /\ ~isConnected /\ ev' = "connectClick")
         => (pc' = pc /\ rooms' = rooms /\ room' = room
             /\ isConnected' = isConnected /\ out' = <<>>)]_vars

\* C4: when a connect attempt fails at any of its awaits, isConnected is false
\* afterwards, exactly one error entry is logged for it and no other attempt
\* is started by the failure.
C4_FailedConnectEndsDisconnected ==
    [][\A a \in Attempts :
         (pc[a] \in {"fetch", "json", "connect", "mic"} /\ pc'[a] = "failed")
           => /\ ~isConnected'
              /\ ErrorsLogged(logged') = 1
              /\ \A b \in Attempts : pc[b] = "idle" => pc'[b] = "idle"]_vars

\* C9: a microphone click while isConnected is false (disconnected, or a
\* connect in flight) leaves isMicOn alone and makes no transport call.
C9_MicNoopUnlessConnected ==
    [][(ev' = "micClick" /\ ~isConnected)
         => (isMicOn' = isMicOn /\ out' = <<>>)]_vars

\* C10: when the transport drops the session of the current, connected Room,
\* isConnected becomes false.
C10_TransportDisconnectEndsSession ==
    [][(isConnected /\ room # NoRoom /\ rooms[room] = "connected"
          /\ ev' = "transportDisconnected" /\ rooms'[room] = "disconnected")
         => ~isConnected']_vars

C6_SecondSymbolAfter10ms ==
    /\ gate'.sym \notin {"NoFrame", "NONE"}
    /\ lastGesture # "NONE"
    /\ gate'.sym # lastGesture
    /\ clock = lastGestureTime + 10

\* C6 as claimed: the second symbol is emitted too.
C6_ChangeBypassesWindow ==
    [][C6_SecondSymbolAfter10ms => gate'.emitted]_vars

\* C6 as amended: the second symbol is suppressed: it does not pass the gate,
\* GestureState keeps the first symbol and its time, and nothing is sent.
C6_ChangeWithinWindowSuppressed ==
    [][C6_SecondSymbolAfter10ms =>
         (~gate'.emitted /\ lastGesture' = lastGesture
          /\ lastGestureTime' = lastGestureTime /\ out' = <<>>)]_vars

C6_Witness ==
    /\ gate.sym \notin {"NoFrame", "NONE"}
    /\ ~gate.emitted
    /\ lastGesture \notin {"NONE", gate.sym}
    /\ clock = lastGestureTime + 10
    /\ out = <<>>

\* C7: one symbol that is not NONE, presented every 100 ms from the initial
\* GestureState: after 3 seconds it has been emitted once or twice, and after
\* any duration at most ceil(duration / 2000) + 1 times.
C7_HeldPoseEmissions ==
    LET duration == (holdCount - 1) * 100
    IN  /\ duration = 3000 => emitCount \in {1, 2}
        /\ holdCount >= 1 => emitCount <= ((duration + 1999) \div 2000) + 1

C7_Witness ==
    /\ (holdCount - 1) * 100 = 3000
    /\ emitCount = 1
    /\ lastGestureTime = clock - 3000

\* The classifier as the specification words it, of the y coordinates alone.
FingerPairs == {<<8, 6>>, <<12, 10>>, <<16, 14>>, <<20, 18>>}
ClassifyByY(y) ==
    LET open(p) == y[p[1]] < y[p[2]]
    IN  IF \A p \in FingerPairs : open(p) THEN "Open_Palm"
        ELSE IF \E p \in FingerPairs : open(p) THEN "NONE"
        ELSE IF y[4] < y[3] /\ y[4] < y[8] THEN "Thumb_Up"
        ELSE "Closed_Fist"

\* C8: detectGesture is the function ClassifyByY of the frame's y coordinates
\* at the indices 3, 4, 6, 8, 10, 12, 14, 16, 18, 20: no x coordinate and no
\* earlier frame changes its result.
C8_ClassifierIsFunctionOfY ==
    frame # <<>> => classified = ClassifyByY([i \in Indices |-> frame[1][i].y])

\* C8, its case: a thumb-up frame whose thumb x comparison (app.js:150) is false.
C8_Witness ==
    /\ frame # <<>>
    /\ classified = "Thumb_Up"
    /\ ~(frame[1][4].x < frame[1][3].x)

\* C11: in every state a handler can observe, isConnected = true implies that
\* the microphone enable of that connect has completed: no attempt is still
\* waiting for setMicrophoneEnabled(true) while isConnected is already true.
C11_ConnectedImpliesMicSettled ==
    isConnected => \A a \in Attempts : pc[a] # "mic"

WhiteSpace == {" ", "\t", "\n"}

Blank(s) == \A i \in 1..Len(s) : s[i] \in WhiteSpace

\* s between its first and its last character that is not white space.
Stripped(s) ==
    LET solid == {i \in 1..Len(s) : s[i] \notin WhiteSpace}
        first == CHOOSE i \in solid : \A j \in solid : i <= j
        last  == CHOOSE i \in solid : \A j \in solid : j <= i
    IN  IF solid = {} THEN <<>> ELSE SubSeq(s, first, last)

\* C12: sendChatMessage publishes nothing when the input is empty or white
\* space only, whatever the session state; what it publishes has topic
\* "chat_message" and the input without leading and trailing white space as
\* payload.
C12_ChatPayloadIsTrimmedInput ==
    ev = "sendChat" =>
        /\ Blank(arg) => out = <<>>
        /\ Len(out) <= 1
        /\ \A i \in 1..Len(out) :
              /\ out[i].call = "publishData"
              /\ out[i].topic = "chat_message"
              /\ out[i].payload = Stripped(arg)

C12_Witness ==
    /\ ev = "sendChat"
    /\ out # <<>>
    /\ out[1].payload = <<"h", "i">>
    /\ arg = <<" ", "h", "i", "\t">>

\* What the classifier returns for the frame with all four fingers open.
OpenFrameSymbol == detectGesture(OpenFrame)

\* C13: connected and with the initial gesture state, the frame with all four
\* fingers open is classified Open_Palm, passes the gate and makes exactly one
\* call, publishData with topic "gesture" and payload "Open_Palm"; the same
\* frame 500 ms after that emission is suppressed and makes no call.
C13_OpenPalmOnceThenSuppressed ==
    [][/\ (/\ isConnected /\ room # NoRoom
           /\ lastGesture = "NONE" /\ lastGestureTime = InitGestureTime
           /\ ev' = "frame" /\ gate'.sym = OpenFrameSymbol)
          => /\ gate'.emitted
             /\ out' = <<Call("publishData", room, "gesture", "Open_Palm", FALSE)>>
             /\ lastGesture' = "Open_Palm"
       /\ (/\ lastGesture = "Open_Palm" /\ clock = lastGestureTime + 500
           /\ ev' = "frame" /\ gate'.sym = OpenFrameSymbol)
          => /\ ~gate'.emitted
             /\ out' = <<>>
             /\ UNCHANGED gestVars]_vars

C13_Witness ==
    /\ isConnected
    /\ ev = "frame" /\ gate.sym = "Open_Palm" /\ ~gate.emitted /\ out = <<>>
    /\ lastGesture = "Open_Palm"
    /\ lastGestureTime = ClockBase
    /\ clock = lastGestureTime + 500

\* C14: lastGestureTime never decreases, whatever Date.now() returns from one
\* frame to the next, readings that go backwards included.
C14_EmitTimeNeverDecreases ==
    [][lastGestureTime' >= lastGestureTime]_vars

\* A frame with a new symbol arrives while the clock reads less than the last
\* emission time, and is suppressed.
C14_Witness ==
    /\ ev = "frame"
    /\ gate.sym \notin {"NoFrame", "NONE", lastGesture}
    /\ lastGestureTime > InitGestureTime
    /\ clock < lastGestureTime
    /\ ~gate.emitted

\* C16: when the transport rejects a chat or gesture send made while
\* connected, the failure is reported in the log and isConnected and isMicOn
\* keep their values.
C16_RejectedSendReportedSessionKept ==
    [][(Connected /\ ev' = "sendSettled" /\ ~arg'.ok)
         => /\ ErrorsLogged(logged') >= 1
            /\ isConnected' = isConnected
            /\ isMicOn' = isMicOn]_vars

\* C17: a DataReceived or ActiveSpeakersChanged event leaves isConnected,
\* isMicOn, lastGesture and lastGestureTime unchanged and calls nothing on the
\* transport; DataReceived writes to the log exactly when the topic is
\* "chat_message" and leaves the indicator alone; ActiveSpeakersChanged
\* writes nothing to the log and sets the indicator by whether there is a
\* speaker.
C17_InboundEventsOnlyLogAndIndicate ==
    [][ev' \in {"dataReceived", "speakersChanged"}
         => /\ isConnected' = isConnected
            /\ isMicOn' = isMicOn
            /\ UNCHANGED gestVars
            /\ out' = <<>>
            /\ ev' = "dataReceived"
                 => /\ logged' # <<>> <=> arg'.topic = "chat_message"
                    /\ \A i \in 1..Len(logged') : logged'[i].type = "agent"
                    /\ agentStatus' = agentStatus
            /\ ev' = "speakersChanged"
                 => /\ logged' = <<>>
                    /\ agentStatus'.text =
                          IF arg'.speakers = 0 THEN "ONLINE" ELSE "SPEAKING..."]_vars

\* Both kinds of event have arrived: a message on another topic while someone speaks.
C17_Witness ==
    /\ ev = "dataReceived"
    /\ arg.topic = "gesture"
    /\ logged = <<>>
    /\ agentStatus.text = "SPEAKING..."
    /\ lastGesture # "NONE"

\* C15: from every reachable state, the states after a failed token request,
\* a failed connect, a failed microphone enable and a rejected send included,
\* connect-button clicks answered by successful collaborators lead to a state
\* in which the session is up and sends are permitted.
C15_RecoveryReachesConnected ==
    mode = "recover" ~> (Connected /\ ChatGuard(room) /\ GestureGuard(room, isConnected))

\* The recovery used the attempt kept back for it, after an earlier failure.
C15_Witness ==
    /\ mode = "recover"
    /\ Connected
    /\ pc[Len(pc)] \in {"mic", "done"}
    /\ \E a \in Attempts : pc[a] = "failed"

\* C18: once the user has clicked disconnect and makes no further connect
\* request, isConnected stays false and no Room of this page is connected,
\* whatever continuations were pending.
C18_DisconnectIsFinal ==
    mode = "quiet" => ~isConnected /\ \A r \in Attempts : rooms[r] # "connected"

\* The gesture state after a frame, from the symbol, the clock reading and the
\* gesture state before it, and from nothing else.
GateStateAfter(sym, now, lastG, lastT) ==
    IF sym \notin {"NoFrame", "NONE"} /\ sym # lastG /\ now - lastT > 2000
    THEN <<sym, now>>
    ELSE <<lastG, lastT>>

\* C19: the gate's decision and state update do not depend on the session:
\* (lastGesture, lastGestureTime) after a frame are a function of the symbol,
\* the clock reading and their values before, the same whether isConnected is
\* true or false; only the publishData call depends on the session, so a
\* gesture that passes the gate while disconnected takes the gate and sends
\* nothing.
C19_GateIndependentOfSession ==
    [][ev' = "frame" =>
         /\ <<lastGesture', lastGestureTime'>>
               = GateStateAfter(gate'.sym, clock, lastGesture, lastGestureTime)
         /\ gate'.emitted
               <=> <<lastGesture', lastGestureTime'>> # <<lastGesture, lastGestureTime>>
         /\ out' # <<>> <=> (gate'.emitted /\ isConnected /\ room # NoRoom)
      ]_vars

\* A gesture passed the gate on a page that never had a Room.
C19_Witness ==
    /\ ev = "frame"
    /\ gate.emitted
    /\ ~isConnected
    /\ room = NoRoom
    /\ out = <<>>
    /\ lastGesture = gate.sym
    /\ lastGestureTime = clock

\* C20: while frames keep coming and the clock advances, a held symbol that is
\* not NONE and differs from lastGesture is emitted, at the latest by the first
\* frame whose time exceeds lastGestureTime + 2000; a suppressed frame leaves
\* nothing behind, and an emission carries the symbol of the frame of its step.
C20_HeldSymbolEmittedByDeadline ==
    /\ <>(lastGesture = detectGesture(holdFrame[1]))
    /\ [][ev' = "frame" =>
            /\ (/\ gate'.sym \notin {"NoFrame", "NONE", lastGesture}
                /\ clock' > lastGestureTime + 2000)
               => gate'.emitted
            /\ gate'.emitted
               => /\ lastGesture' = gate'.sym
                  /\ lastGestureTime' = clock'
                  /\ \A i \in 1..Len(out') : out'[i].payload = gate'.sym
            /\ ~gate'.emitted
               => /\ out' = <<>>
                  /\ UNCHANGED gestVars
         ]_vars

\* The held symbol was emitted after frames of it had been suppressed.
C20_Witness ==
    /\ ev = "frame"
    /\ gate.emitted
    /\ gate.sym = detectGesture(holdFrame[1])
    /\ gate.prev # "NONE"
    /\ emitCount = 2
    /\ holdCount > 3
    /\ lastGestureTime = clock

====
